---------------------------- MODULE Spec2Model ----------------------------
(***************************************************************************)
(* A model of dogpile.core: the Lock single-flight primitive               *)
(* (src/dogpile/core/dogpile.py), the Dogpile facade and the               *)
(* SyncReaderDogpile variant, run by a fixed set of threads over a         *)
(* discrete wall clock.                                                    *)
(*                                                                         *)
(* Each thread walks through Lock._enter / Lock._enter_create one          *)
(* shared-state access at a time: the initial probe, the freshness test,   *)
(* the acquire of the creation mutex, the probe under the mutex, the       *)
(* creator, the release in the finally clause, the choice of the value to  *)
(* yield, the scope body and the scope exit.                               *)
(*                                                                         *)
(* The same threads also run the Dogpile and SyncReaderDogpile of the      *)
(* earlier revision (src/dogpile/dogpile.py), whose scopes hold the read   *)
(* lock of a ReadWriteMutex, and NameRegistry.get                          *)
(* (src/dogpile/nameregistry.py) over one identifier.                      *)
(***************************************************************************)
EXTENDS Integers, Sequences, FiniteSets, TLC

(* ------------------------------ bounds -------------------------------- *)

\* number of threads entering scopes
NumThreads == 2

\* the clock runs from StartTime to MaxTime
MaxTime == 3

\* total number of scope entries over a run (num_threads * num_usages)
MaxEntries == 4

Procs == 1..NumThreads

\* time.time() when the run starts: a positive epoch
StartTime == 1

(* ------------------------------ values -------------------------------- *)

\* NOT_REGENERATED = object()
NOT_REGENERATED == <<"NOT_REGENERATED">>

\* Python's None: the value of the probe Dogpile.acquire synthesizes
None == <<"None">>

\* the value made by the n-th creator invocation
Val(n) == <<"value", n>>

\* createdtime = -1 : no value
NEVER == 0 - 1

\* expiretime None ("never expires") is the empty tuple, a number e is <<e>>
NoExpiry == <<>>

VARIABLES
    mode,          \* "lock": a Lock over an external store (value_and_created_fn given)
                   \* "dogpile": Dogpile.acquire(creator) with the synthesized probe
                   \* "legacy": Dogpile.acquire(creator) of src/dogpile/dogpile.py
    sync,          \* TRUE: the Dogpile is a SyncReaderDogpile and the creator
                   \*       wraps a section in acquire_write_lock()
    expiretime,    \* Lock.expiretime / Dogpile.expiretime
    now,           \* time.time()
    mutex,         \* the creation mutex: 0 free, else the holding thread
    store,         \* the external cache: <<>> or <<value, createdtime>>
    dcreatedtime,  \* Dogpile.createdtime
    writer,        \* ReadWriteMutex: the thread holding the write lock, or 0
    readers,       \* ReadWriteMutex: the number of read locks held
    wpending,      \* ReadWriteMutex: the pending-writer flag
    saved,         \* the creator's local `saved` inside its write-lock section
    pc,            \* each thread's position
    value,         \* _enter's local `value`
    createdtime,   \* _enter's local `createdtime`
    generated,     \* what _enter_create returns: NOT_REGENERATED or <<value, createdtime>>
    exc,           \* the exception in flight in the thread, "none" if none
    yielded,       \* the value __enter__ returned to the scope
    fresh,         \* the outcome of line 73, `not self._is_expired(createdtime)`
    acq,           \* how this entry acquired the mutex: "none", "blocking", "nonblocking"
    invoked,       \* whether this entry called creator
    ncreate,       \* creator invocations so far
    ndone,         \* creator invocations that returned
    lastdone,      \* time.time() when a creator last returned, NEVER if none did
    entries,       \* scope entries, or calls of NameRegistry.get, so far
    rvalues,       \* NameRegistry._values[identifier]: the object, 0 if no entry
    rmutex,        \* NameRegistry._mutex: 0 free, else the holding thread
    rpc,           \* each thread's position in NameRegistry.get
    robj,          \* the object the thread refers to strongly, 0 if none
    rexc,          \* the exception in flight in get, "none" if none
    rhandler,      \* get is inside its `except KeyError` handler (line 46)
    rfailed,       \* the first exception the creator raised in this get
    rcalls,        \* creator invocations of this get
    rcreated,      \* objects made by the creator so far
    rdepth,        \* NameRegistry._mutex, an RLock: how many times its holder acquired it
    rother,        \* NameRegistry._values[other]: the entry of a second identifier
    rnested        \* the object the thread's creator got from get(other), 0 if none

vars == <<mode, sync, expiretime, now, mutex, store, dcreatedtime, writer, readers, wpending,
          saved, pc, value, createdtime, generated, exc, yielded, fresh, acq, invoked,
          ncreate, ndone, lastdone, entries, rvalues, rmutex, rpc, robj, rexc,
          rhandler, rfailed, rcalls, rcreated, rdepth, rother, rnested>>

config == <<mode, sync, expiretime>>
locals == <<value, createdtime, generated, exc, yielded, fresh, acq, invoked>>
rwlock == <<writer, readers, wpending, saved>>
nested == <<rdepth, rother, rnested>>
registry == <<rvalues, rmutex, rpc, robj, rexc, rhandler, rfailed, rcalls, rcreated, nested>>
dogpile == <<config, now, mutex, store, dcreatedtime, rwlock, pc, locals,
             ncreate, ndone, lastdone>>

(* --------------------------- pure functions --------------------------- *)

\* Lock._has_value
HasValue(ct) == ct > 0

IsExpiredAlways(ct, t) == TRUE

IsExpiredNever(ct, t) == ~HasValue(ct)

IsExpiredAtLimit(ct, t) ==
    (~HasValue(ct)) \/ (expiretime # NoExpiry /\ t - ct >= expiretime[1])

\* Lock._is_expired, at time t
IsExpired(ct, t) ==
    (~HasValue(ct)) \/ (expiretime # NoExpiry /\ t - ct > expiretime[1])

\* Dogpile.has_value (src/dogpile/core/dogpile.py, lines 204-208)
DogpileHasValue == dcreatedtime > 0

\* Dogpile.is_expired (src/dogpile/core/dogpile.py, lines 193-202), at time t
DogpileIsExpired(t) ==
    (~DogpileHasValue) \/ (expiretime # NoExpiry /\ t - dcreatedtime > expiretime[1])

\* the configurations whose probe reads a store that the creator fills: a Lock
\* with a value_and_created_fn, Dogpile.acquire(creator, value_fn), and
\* Dogpile.acquire(creator, value_and_created_fn=...) of src/dogpile/dogpile.py
StoreModes == {"lock", "getfn", "legacyfn"}

\* value_and_created_fn(): does it raise NeedRegenerationException?
ProbeNeedsRegen == mode \in StoreModes /\ store = <<>>

\* value_and_created_fn(): the (value, createdtime) it returns
ProbeResult ==
    IF mode \in {"lock", "legacyfn"} THEN store
    ELSE IF mode = "getfn" THEN <<store[1], dcreatedtime>>
    ELSE <<None, dcreatedtime>>

(* ------------------------------- Init --------------------------------- *)

InitLocals ==
    /\ pc = [t \in Procs |-> "idle"]
    /\ value = [t \in Procs |-> None]
    /\ createdtime = [t \in Procs |-> NEVER]
    /\ generated = [t \in Procs |-> NOT_REGENERATED]
    /\ exc = [t \in Procs |-> "none"]
    /\ yielded = [t \in Procs |-> None]
    /\ fresh = [t \in Procs |-> FALSE]
    /\ acq = [t \in Procs |-> "none"]
    /\ invoked = [t \in Procs |-> FALSE]

InitUnclocked ==
    /\ mutex = 0
    /\ store = <<>>
    /\ writer = 0
    /\ readers = 0
    /\ wpending = FALSE
    /\ saved = <<>>
    /\ ncreate = 0
    /\ ndone = 0
    /\ lastdone = NEVER
    /\ entries = 0
    /\ rvalues = 0
    /\ rmutex = 0
    /\ rpc = [t \in Procs |-> "idle"]
    /\ robj = [t \in Procs |-> 0]
    /\ rexc = [t \in Procs |-> "none"]
    /\ rhandler = [t \in Procs |-> FALSE]
    /\ rfailed = [t \in Procs |-> "none"]
    /\ rcalls = [t \in Procs |-> 0]
    /\ rcreated = 0
    /\ rdepth = 0
    /\ rother = 0
    /\ rnested = [t \in Procs |-> 0]

InitShared ==
    /\ now = StartTime
    /\ InitUnclocked

ExpireTimes == {NoExpiry} \cup {<<e>> : e \in 1..MaxTime}

\* Lock(mutex, creator, value_and_created_fn, expiretime) over an empty store
Init ==
    /\ mode = "lock"
    /\ sync = FALSE
    /\ expiretime \in ExpireTimes
    /\ dcreatedtime = NEVER
    /\ InitShared
    /\ InitLocals

(* ------------------------------ actions ------------------------------- *)

\* time passes
Tick ==
    /\ now < MaxTime
    /\ now' = now + 1
    /\ UNCHANGED <<config, registry, mutex, store, dcreatedtime, rwlock, pc, locals,
                   ncreate, ndone, lastdone, entries>>

EnterKeepsTimestamp(t) ==
    /\ pc[t] = "idle"
    /\ entries < MaxEntries
    /\ entries' = entries + 1
    /\ value' = [value EXCEPT ![t] = IF ProbeNeedsRegen THEN NOT_REGENERATED ELSE ProbeResult[1]]
    /\ createdtime' = [createdtime EXCEPT ![t] = IF mode = "lock" /\ store # <<>>
                                                  THEN store[2] ELSE dcreatedtime]
    /\ pc' = [pc EXCEPT ![t] = "enter_create"]
    /\ UNCHANGED <<config, registry, now, mutex, store, dcreatedtime, rwlock, generated, exc,
                   yielded, fresh, acq, invoked, ncreate, ndone, lastdone>>

\* Lock._enter, lines 45-53: the initial probe
Enter(t) ==
    /\ pc[t] = "idle"
    /\ entries < MaxEntries
    /\ entries' = entries + 1
    /\ IF ProbeNeedsRegen
       THEN /\ value' = [value EXCEPT ![t] = NOT_REGENERATED]
            /\ createdtime' = [createdtime EXCEPT ![t] = NEVER]
       ELSE /\ value' = [value EXCEPT ![t] = ProbeResult[1]]
            /\ createdtime' = [createdtime EXCEPT ![t] = ProbeResult[2]]
    /\ pc' = [pc EXCEPT ![t] = "enter_create"]
    /\ UNCHANGED <<config, registry, now, mutex, store, dcreatedtime, rwlock, generated, exc,
                   yielded, fresh, acq, invoked, ncreate, ndone, lastdone>>

EnterProbeFailsCaught(t) ==
    /\ pc[t] = "idle"
    /\ mode = "lock"
    /\ entries < MaxEntries
    /\ entries' = entries + 1
    /\ exc' = [exc EXCEPT ![t] = "ProbeFailure"]
    /\ value' = [value EXCEPT ![t] = NOT_REGENERATED]
    /\ createdtime' = [createdtime EXCEPT ![t] = NEVER]
    /\ pc' = [pc EXCEPT ![t] = "enter_create"]
    /\ UNCHANGED <<config, registry, now, mutex, store, dcreatedtime, rwlock,
                   generated, yielded, fresh, acq, invoked, ncreate, ndone, lastdone>>

\* Lock._enter, lines 46-48: the initial probe raises an exception other than
\* NeedRegenerationException, which the except clause of line 49 does not catch
EnterProbeFails(t) ==
    /\ pc[t] = "idle"
    /\ mode = "lock"
    /\ entries < MaxEntries
    /\ entries' = entries + 1
    /\ exc' = [exc EXCEPT ![t] = "ProbeFailure"]
    /\ pc' = [pc EXCEPT ![t] = "raised"]
    /\ UNCHANGED <<config, registry, now, mutex, store, dcreatedtime, rwlock, value, createdtime,
                   generated, yielded, fresh, acq, invoked, ncreate, ndone, lastdone>>

AfterCheckNeverBlocks(ct, isfresh) ==
    IF isfresh THEN "resolve" ELSE "try_acquire"

AfterCheckFreshAcquires(ct, isfresh) ==
    IF HasValue(ct) THEN "try_acquire" ELSE "acquire"

AfterCheckSwapped(ct, isfresh) ==
    IF isfresh THEN "resolve"
    ELSE IF HasValue(ct) THEN "acquire" ELSE "try_acquire"

\* Lock._enter_create, lines 73-83: where the freshness test sends the thread
AfterCheck(ct, isfresh) ==
    IF isfresh THEN "resolve"
    ELSE IF HasValue(ct) THEN "try_acquire" ELSE "acquire"

\* Lock._enter_create, lines 73-76: the freshness test on the probed createdtime
EnterCreate(t) ==
    /\ pc[t] = "enter_create"
    /\ LET isfresh == ~IsExpired(createdtime[t], now) IN
       /\ fresh' = [fresh EXCEPT ![t] = isfresh]
       /\ pc' = [pc EXCEPT ![t] = AfterCheck(createdtime[t], isfresh)]
    /\ UNCHANGED <<config, registry, now, mutex, store, dcreatedtime, rwlock, value, createdtime,
                   generated, exc, yielded, acq, invoked, ncreate, ndone, lastdone, entries>>

TryAcquireBarging(t) ==
    /\ pc[t] = "try_acquire"
    /\ mutex' = t
    /\ acq' = [acq EXCEPT ![t] = "nonblocking"]
    /\ pc' = [pc EXCEPT ![t] = "locked"]
    /\ UNCHANGED generated

TryAcquireThenFinally(t) ==
    /\ pc[t] = "try_acquire"
    /\ IF mutex = 0
       THEN /\ mutex' = t
            /\ acq' = [acq EXCEPT ![t] = "nonblocking"]
            /\ pc' = [pc EXCEPT ![t] = "locked"]
            /\ UNCHANGED generated
       ELSE /\ generated' = [generated EXCEPT ![t] = NOT_REGENERATED]
            /\ pc' = [pc EXCEPT ![t] = "release"]
            /\ UNCHANGED <<mutex, acq>>

\* Lock._enter_create, lines 77-80: self.mutex.acquire(False)
TryAcquireStep(t) ==
    /\ pc[t] = "try_acquire"
    /\ IF mutex = 0
       THEN /\ mutex' = t
            /\ acq' = [acq EXCEPT ![t] = "nonblocking"]
            /\ pc' = [pc EXCEPT ![t] = "locked"]
            /\ UNCHANGED generated
       ELSE /\ generated' = [generated EXCEPT ![t] = NOT_REGENERATED]
            /\ pc' = [pc EXCEPT ![t] = "resolve"]
            /\ UNCHANGED <<mutex, acq>>

TryAcquire(t) ==
    /\ TryAcquireStep(t)
    /\ UNCHANGED <<config, registry, now, store, dcreatedtime, rwlock, value, createdtime,
                   exc, yielded, fresh, invoked, ncreate, ndone, lastdone, entries>>

AcquireReentrant(t) ==
    /\ pc[t] \in {"acquire", "inner_acquire"}
    /\ mutex \in {0, t}
    /\ mutex' = t
    /\ acq' = [acq EXCEPT ![t] = "blocking"]
    /\ pc' = [pc EXCEPT ![t] = IF pc[t] = "acquire" THEN "locked" ELSE "inner_locked"]
    /\ UNCHANGED <<config, registry, now, store, dcreatedtime, rwlock, value, createdtime,
                   generated, exc, yielded, fresh, invoked, ncreate, ndone, lastdone, entries>>

\* Lock._enter_create, lines 81-83: self.mutex.acquire(), which waits for the
\* mutex; the caller is an entry, or the entry its creator made inside it
Acquire(t) ==
    /\ pc[t] \in {"acquire", "inner_acquire"}
    /\ mutex = 0
    /\ mutex' = t
    /\ acq' = [acq EXCEPT ![t] = "blocking"]
    /\ pc' = [pc EXCEPT ![t] = IF pc[t] = "acquire" THEN "locked" ELSE "inner_locked"]
    /\ UNCHANGED <<config, registry, now, store, dcreatedtime, rwlock, value, createdtime,
                   generated, exc, yielded, fresh, invoked, ncreate, ndone, lastdone, entries>>

\* Lock._enter_create, lines 98-99: self.creator() is called
CallCreator(t) ==
    /\ ncreate' = ncreate + 1
    /\ invoked' = [invoked EXCEPT ![t] = TRUE]
    /\ pc' = [pc EXCEPT ![t] = "creating"]
    /\ UNCHANGED generated

ProbeUnderMutexNoRecheck(t) ==
    /\ pc[t] = "locked"
    /\ CallCreator(t)
    /\ UNCHANGED <<config, registry, now, mutex, store, dcreatedtime, rwlock, value, createdtime,
                   exc, yielded, fresh, acq, ndone, lastdone, entries>>

ProbeUnderMutexUncaught(t) ==
    /\ pc[t] = "locked"
    /\ IF ProbeNeedsRegen
       THEN /\ exc' = [exc EXCEPT ![t] = "NeedRegenerationException"]
            /\ pc' = [pc EXCEPT ![t] = "release"]
            /\ UNCHANGED <<generated, ncreate, invoked>>
       ELSE /\ UNCHANGED exc
            /\ IF ~IsExpired(ProbeResult[2], now)
               THEN /\ generated' = [generated EXCEPT ![t] = ProbeResult]
                    /\ pc' = [pc EXCEPT ![t] = "release"]
                    /\ UNCHANGED <<ncreate, invoked>>
               ELSE CallCreator(t)
    /\ UNCHANGED <<config, registry, now, mutex, store, dcreatedtime, rwlock, value, createdtime,
                   yielded, fresh, acq, ndone, lastdone, entries>>

\* Lock._enter_create, lines 88-99: the probe under the mutex, then either the
\* return of the value found or the call of the creator
ProbeUnderMutex(t) ==
    /\ pc[t] = "locked"
    /\ IF ProbeNeedsRegen
       THEN CallCreator(t)
       ELSE IF ~IsExpired(ProbeResult[2], now)
            THEN /\ generated' = [generated EXCEPT ![t] = ProbeResult]
                 /\ pc' = [pc EXCEPT ![t] = "release"]
                 /\ UNCHANGED <<ncreate, invoked>>
            ELSE CallCreator(t)
    /\ UNCHANGED <<config, registry, now, mutex, store, dcreatedtime, rwlock, value, createdtime,
                   exc, yielded, fresh, acq, ndone, lastdone, entries>>

\* the probe under the mutex raises an exception other than NeedRegenerationException
ProbeUnderMutexFails(t) ==
    /\ pc[t] = "locked"
    /\ mode = "lock"
    /\ exc' = [exc EXCEPT ![t] = "ProbeFailure"]
    /\ pc' = [pc EXCEPT ![t] = "release"]
    /\ UNCHANGED <<config, registry, now, mutex, store, dcreatedtime, rwlock, value, createdtime,
                   generated, yielded, fresh, acq, invoked, ncreate, ndone, lastdone, entries>>

\* the creator returns.  Over a store (tests/core/test_lock.py, create_resource) it
\* appends the new value and returns (value, time.time()); Dogpile.acquire's
\* creator_wrapper (lines 181-182) returns (creator(), time.time())
CreatorReturns(t) ==
    /\ pc[t] = (IF sync THEN "written" ELSE "creating")
    /\ ndone' = ndone + 1
    /\ lastdone' = now
    /\ generated' = [generated EXCEPT ![t] = <<Val(ncreate), now>>]
    /\ store' = IF mode \in StoreModes THEN <<Val(ncreate), now>> ELSE store
    /\ pc' = [pc EXCEPT ![t] = "release"]
    /\ UNCHANGED <<config, registry, now, mutex, dcreatedtime, rwlock, value, createdtime,
                   exc, yielded, fresh, acq, invoked, ncreate, entries>>

\* the creator returns (value, createdtime) with a createdtime of its own choice,
\* no later than the clock; Lock._enter_create, lines 98-100, returns the pair as it is
CreatorReturnsBackdated(t) ==
    /\ pc[t] = "creating"
    /\ ndone' = ndone + 1
    /\ lastdone' = now
    /\ \E ct \in StartTime .. now :
        /\ generated' = [generated EXCEPT ![t] = <<Val(ncreate), ct>>]
        /\ store' = <<Val(ncreate), ct>>
    /\ pc' = [pc EXCEPT ![t] = "release"]
    /\ UNCHANGED <<config, registry, now, mutex, dcreatedtime, rwlock, value, createdtime,
                   exc, yielded, fresh, acq, invoked, ncreate, entries>>

\* the creator returns (value, time.time()) without putting the value where the
\* probe looks for it
CreatorReturnsUnstored(t) ==
    /\ pc[t] = "creating"
    /\ ndone' = ndone + 1
    /\ lastdone' = now
    /\ generated' = [generated EXCEPT ![t] = <<Val(ncreate), now>>]
    /\ pc' = [pc EXCEPT ![t] = "release"]
    /\ UNCHANGED <<config, registry, now, mutex, store, dcreatedtime, rwlock, value, createdtime,
                   exc, yielded, fresh, acq, invoked, ncreate, entries>>

WriteLockFreeIgnoringReaders == writer = 0

\* ReadWriteMutex.acquire_write_lock can go ahead: no reader and no writer holds
\* the lock
WriteLockFree == readers = 0 /\ writer = 0

\* ReadWriteMutex.acquire_read_lock can go ahead: no writer is active or pending
ReadLockFree == writer = 0 /\ ~wpending

\* the creator of a SyncReaderDogpile (tests/core/test_dogpile.py, create_impl)
\* enters `with dogpile.acquire_write_lock():`; ReadWriteMutex.acquire_write_lock
\* sets the pending-writer flag and waits
RequestWriteLock(t) ==
    /\ pc[t] = "creating"
    /\ sync
    /\ wpending' = TRUE
    /\ pc' = [pc EXCEPT ![t] = "write_wait"]
    /\ UNCHANGED <<config, registry, now, mutex, store, dcreatedtime, writer, readers,
                   saved, locals, ncreate, ndone, lastdone, entries>>

\* the write lock is granted and the creator empties the resource list
AcquireWriteLock(t) ==
    /\ pc[t] = "write_wait"
    /\ WriteLockFree
    /\ writer' = t
    /\ saved' = store
    /\ store' = <<>>
    /\ pc' = [pc EXCEPT ![t] = "writing"]
    /\ UNCHANGED <<config, registry, now, mutex, dcreatedtime, readers, wpending, locals,
                   ncreate, ndone, lastdone, entries>>

\* the creator restores the resource list and leaves the write-lock section;
\* the creator of tests/test_dogpile.py appends its new value before it leaves
ReleaseWriteLock(t) ==
    /\ pc[t] = "writing"
    /\ writer' = 0
    /\ wpending' = FALSE
    /\ store' = IF mode = "legacy" THEN <<Val(ncreate), now>> ELSE saved
    /\ saved' = <<>>
    /\ pc' = [pc EXCEPT ![t] = "written"]
    /\ UNCHANGED <<config, registry, now, mutex, dcreatedtime, readers, locals,
                   ncreate, ndone, lastdone, entries>>

\* the creator raises
CreatorRaises(t) ==
    /\ pc[t] = "creating"
    /\ exc' = [exc EXCEPT ![t] = "CreatorFailure"]
    /\ pc' = [pc EXCEPT ![t] = "release"]
    /\ UNCHANGED <<config, registry, now, mutex, store, dcreatedtime, rwlock, value, createdtime,
                   generated, yielded, fresh, acq, invoked, ncreate, ndone, lastdone, entries>>

ReleaseUnlessRaised(t) ==
    /\ mutex' = IF exc[t] = "none" THEN 0 ELSE mutex
    /\ pc' = [pc EXCEPT ![t] = IF exc[t] = "none" THEN "resolve" ELSE "raised"]

ReleaseDeferred(t) ==
    /\ mutex' = mutex
    /\ pc' = [pc EXCEPT ![t] = IF exc[t] = "none" THEN "resolve" ELSE "raised"]

\* Lock._enter_create, lines 101-102: finally: self.mutex.release()
ReleaseStep(t) ==
    /\ mutex' = 0
    /\ pc' = [pc EXCEPT ![t] = IF exc[t] = "none" THEN "resolve" ELSE "raised"]

Release(t) ==
    /\ pc[t] = "release"
    /\ ReleaseStep(t)
    /\ UNCHANGED <<config, registry, now, store, dcreatedtime, rwlock, value, createdtime,
                   generated, exc, yielded, fresh, acq, invoked, ncreate, ndone, lastdone, entries>>

ResolveYieldsProbed(t) ==
    /\ pc[t] = "resolve"
    /\ yielded' = [yielded EXCEPT ![t] = value[t]]
    /\ pc' = [pc EXCEPT ![t] = "body"]
    /\ UNCHANGED <<config, registry, now, mutex, store, dcreatedtime, rwlock, generated, value,
                   createdtime, exc, fresh, acq, invoked, ncreate, ndone, lastdone, entries>>

ResolveChecksFreshness(t) ==
    /\ pc[t] = "resolve"
    /\ yielded' = [yielded EXCEPT ![t] =
                      IF generated[t] # NOT_REGENERATED /\ ~IsExpired(generated[t][2], now)
                      THEN generated[t][1] ELSE value[t]]
    /\ pc' = [pc EXCEPT ![t] = "body"]
    /\ UNCHANGED <<config, registry, now, mutex, store, dcreatedtime, rwlock, generated, value,
                   createdtime, exc, fresh, acq, invoked, ncreate, ndone, lastdone, entries>>

ResolveReprobes(t) ==
    /\ pc[t] = "resolve"
    /\ IF value[t] = NOT_REGENERATED
       THEN IF ProbeNeedsRegen
            THEN /\ exc' = [exc EXCEPT ![t] = "Fatal"]
                 /\ pc' = [pc EXCEPT ![t] = "raised"]
                 /\ UNCHANGED <<value, createdtime, yielded>>
            ELSE /\ value' = [value EXCEPT ![t] = ProbeResult[1]]
                 /\ createdtime' = [createdtime EXCEPT ![t] = ProbeResult[2]]
                 /\ yielded' = [yielded EXCEPT ![t] = ProbeResult[1]]
                 /\ pc' = [pc EXCEPT ![t] = "body"]
                 /\ UNCHANGED exc
       ELSE /\ yielded' = [yielded EXCEPT ![t] =
                              IF generated[t] # NOT_REGENERATED
                              THEN generated[t][1] ELSE value[t]]
            /\ pc' = [pc EXCEPT ![t] = "body"]
            /\ UNCHANGED <<value, createdtime, exc>>
    /\ UNCHANGED <<config, registry, now, mutex, store, dcreatedtime, rwlock, generated,
                   fresh, acq, invoked, ncreate, ndone, lastdone, entries>>

\* Lock._enter, lines 57-69: the value __enter__ returns
Resolve(t) ==
    /\ pc[t] = "resolve"
    /\ IF generated[t] # NOT_REGENERATED
       THEN /\ yielded' = [yielded EXCEPT ![t] = generated[t][1]]
            /\ createdtime' = [createdtime EXCEPT ![t] = generated[t][2]]
            /\ pc' = [pc EXCEPT ![t] = "body"]
            /\ UNCHANGED <<value, exc>>
       ELSE IF value[t] = NOT_REGENERATED
            THEN IF ProbeNeedsRegen
                 THEN /\ exc' = [exc EXCEPT ![t] = "Fatal"]
                      /\ pc' = [pc EXCEPT ![t] = "raised"]
                      /\ UNCHANGED <<value, createdtime, yielded>>
                 ELSE /\ value' = [value EXCEPT ![t] = ProbeResult[1]]
                      /\ createdtime' = [createdtime EXCEPT ![t] = ProbeResult[2]]
                      /\ yielded' = [yielded EXCEPT ![t] = ProbeResult[1]]
                      /\ pc' = [pc EXCEPT ![t] = "body"]
                      /\ UNCHANGED exc
            ELSE /\ yielded' = [yielded EXCEPT ![t] = value[t]]
                 /\ pc' = [pc EXCEPT ![t] = "body"]
                 /\ UNCHANGED <<value, createdtime, exc>>
    /\ UNCHANGED <<config, registry, now, mutex, store, dcreatedtime, rwlock, generated,
                   fresh, acq, invoked, ncreate, ndone, lastdone, entries>>

\* the thread is ready for its next usage
Reset(t) ==
    /\ pc' = [pc EXCEPT ![t] = "idle"]
    /\ value' = [value EXCEPT ![t] = None]
    /\ createdtime' = [createdtime EXCEPT ![t] = NEVER]
    /\ generated' = [generated EXCEPT ![t] = NOT_REGENERATED]
    /\ exc' = [exc EXCEPT ![t] = "none"]
    /\ yielded' = [yielded EXCEPT ![t] = None]
    /\ fresh' = [fresh EXCEPT ![t] = FALSE]
    /\ acq' = [acq EXCEPT ![t] = "none"]
    /\ invoked' = [invoked EXCEPT ![t] = FALSE]

\* Lock.__exit__, lines 109-110: pass
Exit(t) ==
    /\ pc[t] = "body"
    /\ Reset(t)
    /\ UNCHANGED <<config, registry, now, mutex, store, dcreatedtime, rwlock, ncreate, ndone, lastdone, entries>>

\* the exception leaves __enter__ and reaches the code that entered the scope
Propagate(t) ==
    /\ pc[t] = "raised"
    /\ Reset(t)
    /\ UNCHANGED <<config, registry, now, mutex, store, dcreatedtime, rwlock, ncreate, ndone, lastdone, entries>>

\* the creator callback enters a scope of a Lock on the same mutex, creator,
\* probe and expiretime: Lock._enter, lines 44-55, the probe of the inner entry.
\* Nothing changes the store while the thread is in its creator, so the inner
\* entry's createdtime is the one in the store
Reenter(t) ==
    /\ pc[t] = "creating"
    /\ pc' = [pc EXCEPT ![t] = "inner_enter_create"]
    /\ UNCHANGED <<config, registry, now, mutex, store, dcreatedtime, rwlock, locals,
                   ncreate, ndone, lastdone, entries>>

\* what the inner entry probed
InnerCreatedtime == IF store = <<>> THEN NEVER ELSE store[2]

\* Lock._enter_create, lines 73-83, in the inner entry: the freshness test
InnerEnterCreate(t) ==
    /\ pc[t] = "inner_enter_create"
    /\ LET to == AfterCheck(InnerCreatedtime, ~IsExpired(InnerCreatedtime, now)) IN
       pc' = [pc EXCEPT ![t] = IF to = "resolve" THEN "inner_body"
                               ELSE IF to = "try_acquire" THEN "inner_try_acquire"
                               ELSE "inner_acquire"]
    /\ UNCHANGED <<config, registry, now, mutex, store, dcreatedtime, rwlock, locals,
                   ncreate, ndone, lastdone, entries>>

\* Lock._enter_create, lines 77-80, in the inner entry: self.mutex.acquire(False);
\* on failure _enter returns the probed value and the inner scope begins
InnerTryAcquire(t) ==
    /\ pc[t] = "inner_try_acquire"
    /\ IF mutex = 0
       THEN /\ mutex' = t
            /\ pc' = [pc EXCEPT ![t] = "inner_locked"]
       ELSE /\ pc' = [pc EXCEPT ![t] = "inner_body"]
            /\ UNCHANGED mutex
    /\ UNCHANGED <<config, registry, now, store, dcreatedtime, rwlock, locals,
                   ncreate, ndone, lastdone, entries>>

\* the inner scope ends (Lock.__exit__, lines 109-110) and the creator goes on
InnerExit(t) ==
    /\ pc[t] = "inner_body"
    /\ pc' = [pc EXCEPT ![t] = "creating"]
    /\ UNCHANGED <<config, registry, now, mutex, store, dcreatedtime, rwlock, locals,
                   ncreate, ndone, lastdone, entries>>

\* `with Lock(mutex, creator, value_and_created_fn, expiretime, runner)`
\* (tests/core/test_backgrounding.py, line 21) is reached
EnterWithRunner(t) ==
    /\ pc[t] = "idle"
    /\ entries < MaxEntries
    /\ entries' = entries + 1
    /\ pc' = [pc EXCEPT ![t] = "with_runner"]
    /\ UNCHANGED <<config, registry, now, mutex, store, dcreatedtime, rwlock, locals,
                   ncreate, ndone, lastdone>>

\* Lock.__init__, lines 17-27, takes mutex, creator, value_and_created_fn and
\* expiretime: the call with a fifth argument raises TypeError
ConstructWithRunner(t) ==
    /\ pc[t] = "with_runner"
    /\ exc' = [exc EXCEPT ![t] = "TypeError"]
    /\ pc' = [pc EXCEPT ![t] = "raised"]
    /\ UNCHANGED <<config, registry, now, mutex, store, dcreatedtime, rwlock, value, createdtime,
                   generated, yielded, fresh, acq, invoked, ncreate, ndone, lastdone, entries>>

(* ------------------- Dogpile of src/dogpile/dogpile.py ------------------- *)

\* Dogpile.is_expired, at time t: expiretime is a number
LegacyIsExpired(ct, t) == (~HasValue(ct)) \/ (t - ct > expiretime[1])

\* Lock.__enter__ of acquire(creator), lines 166-167: dogpile._enter(creator)
LegacyEnter(t) ==
    /\ pc[t] = "idle"
    /\ entries < MaxEntries
    /\ entries' = entries + 1
    /\ pc' = [pc EXCEPT ![t] = "is_expired"]
    /\ UNCHANGED <<config, registry, now, mutex, store, dcreatedtime, rwlock, locals,
                   ncreate, ndone, lastdone>>

\* Lock.__enter__ of acquire(creator, value_and_created_fn=...), lines 143-150:
\* value_fn() is called; NeedRegenerationException leaves NOT_REGENERATED
LegacyProbe(t) ==
    /\ pc[t] = "idle"
    /\ entries < MaxEntries
    /\ entries' = entries + 1
    /\ IF ProbeNeedsRegen
       THEN /\ value' = [value EXCEPT ![t] = NOT_REGENERATED]
            /\ createdtime' = [createdtime EXCEPT ![t] = NEVER]
       ELSE /\ value' = [value EXCEPT ![t] = ProbeResult[1]]
            /\ createdtime' = [createdtime EXCEPT ![t] = ProbeResult[2]]
    /\ pc' = [pc EXCEPT ![t] = "probed"]
    /\ UNCHANGED <<config, registry, now, mutex, store, dcreatedtime, rwlock, generated, exc,
                   yielded, fresh, acq, invoked, ncreate, ndone, lastdone>>

\* Lock.__enter__, line 147: `value, dogpile.createdtime = value`, and line 149:
\* `dogpile.createdtime = -1`; then dogpile._enter(creator) is called
LegacySetCreatedtime(t) ==
    /\ pc[t] = "probed"
    /\ dcreatedtime' = createdtime[t]
    /\ pc' = [pc EXCEPT ![t] = "is_expired"]
    /\ UNCHANGED <<config, registry, now, mutex, store, rwlock, locals,
                   ncreate, ndone, lastdone, entries>>

\* what value_fn() returns to the scope when it is a value_and_created_fn
Pair(p) == <<"pair", p[1][2], p[2]>>

\* Lock.__enter__, lines 151-162: the value the scope is entered with
LegacyResolve(t) ==
    /\ pc[t] = "resolve"
    /\ IF generated[t] # NOT_REGENERATED
       THEN /\ yielded' = [yielded EXCEPT ![t] = generated[t][1]]
            /\ pc' = [pc EXCEPT ![t] = "body"]
            /\ UNCHANGED exc
       ELSE IF value[t] = NOT_REGENERATED
            THEN IF ProbeNeedsRegen
                 THEN /\ exc' = [exc EXCEPT ![t] = "Fatal"]
                      /\ pc' = [pc EXCEPT ![t] = "raised"]
                      /\ UNCHANGED yielded
                 ELSE /\ yielded' = [yielded EXCEPT ![t] = Pair(ProbeResult)]
                      /\ pc' = [pc EXCEPT ![t] = "body"]
                      /\ UNCHANGED exc
            ELSE /\ yielded' = [yielded EXCEPT ![t] = value[t]]
                 /\ pc' = [pc EXCEPT ![t] = "body"]
                 /\ UNCHANGED exc
    /\ UNCHANGED <<config, registry, now, mutex, store, dcreatedtime, rwlock, value,
                   createdtime, generated, fresh, acq, invoked, ncreate, ndone, lastdone,
                   entries>>

\* Dogpile._enter, lines 187-188: `if not self.is_expired: return NOT_REGENERATED`
LegacyCheck(t) ==
    /\ pc[t] = "is_expired"
    /\ LET isfresh == ~LegacyIsExpired(dcreatedtime, now) IN
       /\ fresh' = [fresh EXCEPT ![t] = isfresh]
       /\ pc' = [pc EXCEPT ![t] = IF isfresh THEN "resolve" ELSE "has_value"]
    /\ UNCHANGED <<config, registry, now, mutex, store, dcreatedtime, rwlock, value,
                   createdtime, generated, exc, yielded, acq, invoked, ncreate, ndone,
                   lastdone, entries>>

\* Dogpile._enter, lines 190-197: `if self.has_value`, read from the field again
LegacyHasValue(t) ==
    /\ pc[t] = "has_value"
    /\ pc' = [pc EXCEPT ![t] = IF HasValue(dcreatedtime) THEN "try_acquire" ELSE "acquire"]
    /\ UNCHANGED <<config, registry, now, mutex, store, dcreatedtime, rwlock, locals,
                   ncreate, ndone, lastdone, entries>>

\* Dogpile._enter, lines 201-206: the test of is_expired under the mutex, then
\* the call of the creator
LegacyRecheck(t) ==
    /\ pc[t] = "locked"
    /\ IF ~LegacyIsExpired(dcreatedtime, now)
       THEN /\ pc' = [pc EXCEPT ![t] = "release"]
            /\ UNCHANGED <<generated, ncreate, invoked>>
       ELSE CallCreator(t)
    /\ UNCHANGED <<config, registry, now, mutex, store, dcreatedtime, rwlock, value,
                   createdtime, exc, yielded, fresh, acq, ndone, lastdone, entries>>

\* Dogpile._enter, lines 206-208: the creator has returned and
\* self.createdtime = time.time().  The creator of a SyncReaderDogpile
\* (tests/test_dogpile.py, create_resource) has written under the write lock and
\* returns None; the creator of tests/test_get_fn.py stores its value and returns it
LegacyCreatorReturns(t) ==
    /\ pc[t] = (IF sync THEN "written" ELSE "creating")
    /\ ndone' = ndone + 1
    /\ lastdone' = now
    /\ dcreatedtime' = now
    /\ generated' = [generated EXCEPT ![t] = <<IF sync THEN None ELSE Val(ncreate), now>>]
    /\ store' = IF sync THEN store ELSE <<Val(ncreate), now>>
    /\ pc' = [pc EXCEPT ![t] = "release"]
    /\ UNCHANGED <<config, registry, now, mutex, rwlock, value, createdtime,
                   exc, yielded, fresh, acq, invoked, ncreate, entries>>

\* SyncReaderDogpile._enter, lines 232-234: Dogpile._enter has returned; the read
\* lock is acquired and the value returned to the scope
LegacyAcquireRead(t) ==
    /\ pc[t] = "resolve"
    /\ ReadLockFree
    /\ readers' = readers + 1
    /\ yielded' = [yielded EXCEPT ![t] =
                      IF generated[t] = NOT_REGENERATED
                      THEN NOT_REGENERATED ELSE generated[t][1]]
    /\ pc' = [pc EXCEPT ![t] = "body"]
    /\ UNCHANGED <<config, registry, now, mutex, store, dcreatedtime, writer, wpending,
                   saved, value, createdtime, generated, exc, fresh, acq, invoked,
                   ncreate, ndone, lastdone, entries>>

\* Lock.__exit__, lines 169-170, and SyncReaderDogpile._exit, lines 236-237: the
\* read lock is released
LegacyExit(t) ==
    /\ pc[t] = "body"
    /\ readers' = readers - 1
    /\ Reset(t)
    /\ UNCHANGED <<config, registry, now, mutex, store, dcreatedtime, writer, wpending,
                   saved, ncreate, ndone, lastdone, entries>>

\* a thread outside any creator enters `with dogpile.acquire_write_lock():`
DirectRequestWrite(t) ==
    /\ pc[t] = "idle"
    /\ entries < MaxEntries
    /\ entries' = entries + 1
    /\ wpending' = TRUE
    /\ pc' = [pc EXCEPT ![t] = "direct_wait"]
    /\ UNCHANGED <<config, registry, now, mutex, store, dcreatedtime, writer, readers,
                   saved, locals, ncreate, ndone, lastdone>>

\* that thread is granted the write lock
DirectAcquireWrite(t) ==
    /\ pc[t] = "direct_wait"
    /\ WriteLockFree
    /\ writer' = t
    /\ pc' = [pc EXCEPT ![t] = "direct_writing"]
    /\ UNCHANGED <<config, registry, now, mutex, store, dcreatedtime, readers, wpending,
                   saved, locals, ncreate, ndone, lastdone, entries>>

\* and leaves the write-lock section
DirectReleaseWrite(t) ==
    /\ pc[t] = "direct_writing"
    /\ writer' = 0
    /\ wpending' = FALSE
    /\ pc' = [pc EXCEPT ![t] = "idle"]
    /\ UNCHANGED <<config, registry, now, mutex, store, dcreatedtime, readers,
                   saved, locals, ncreate, ndone, lastdone, entries>>

(* ---------------------------- NameRegistry ---------------------------- *)

\* the exceptions a creator passed to NameRegistry may raise
CreatorErrors == {"KeyError", "CreatorFailure"}

\* some thread holds a strong reference to object o
Referenced(o) == \E t \in Procs : robj[t] = o \/ rnested[t] = o

LockAcquire(t) ==
    /\ rmutex = 0
    /\ rmutex' = t
    /\ rdepth' = 1

\* NameRegistry._mutex = threading.RLock() (lines 32 and 37): acquire() goes
\* through when the mutex is free or held by the calling thread
RLockAcquire(t) ==
    /\ rmutex \in {0, t}
    /\ rmutex' = t
    /\ rdepth' = rdepth + 1

\* RLock.release(): the mutex is free when its holder has released it as often
\* as it acquired it
RLockRelease ==
    /\ rdepth' = rdepth - 1
    /\ rmutex' = IF rdepth = 1 THEN 0 ELSE rmutex

\* the start of a call of the creator inside _sync_get
RCallCreator(t, at) ==
    /\ rcalls' = [rcalls EXCEPT ![t] = rcalls[t] + 1]
    /\ rpc' = [rpc EXCEPT ![t] = at]

\* NameRegistry.get(identifier) is called
Get(t) ==
    /\ rpc[t] = "idle"
    /\ entries < MaxEntries
    /\ entries' = entries + 1
    /\ rpc' = [rpc EXCEPT ![t] = "get_check"]
    /\ UNCHANGED <<dogpile, nested, rvalues, rmutex, robj, rexc, rhandler, rfailed, rcalls,
                   rcreated>>

\* get, lines 41-44: `if identifier in self._values`, outside the mutex
GetCheck(t) ==
    /\ rpc[t] = "get_check"
    /\ rpc' = [rpc EXCEPT ![t] = IF rvalues # 0 THEN "get_read" ELSE "sync_acquire"]
    /\ UNCHANGED <<dogpile, nested, entries, rvalues, rmutex, robj, rexc, rhandler, rfailed,
                   rcalls, rcreated>>

GetReadUnhandled(t) ==
    /\ rpc[t] = "get_read"
    /\ IF rvalues # 0
       THEN /\ robj' = [robj EXCEPT ![t] = rvalues]
            /\ rpc' = [rpc EXCEPT ![t] = "holding"]
            /\ UNCHANGED rexc
       ELSE /\ rexc' = [rexc EXCEPT ![t] = "KeyError"]
            /\ rpc' = [rpc EXCEPT ![t] = "raised"]
            /\ UNCHANGED robj
    /\ UNCHANGED <<dogpile, nested, entries, rvalues, rmutex, rhandler, rfailed, rcalls, rcreated>>

\* get, lines 42 and 45-46: `return self._values[identifier]`; the KeyError of an
\* entry that has gone since line 41 is caught and leads to _sync_get
GetRead(t) ==
    /\ rpc[t] = "get_read"
    /\ IF rvalues # 0
       THEN /\ robj' = [robj EXCEPT ![t] = rvalues]
            /\ rpc' = [rpc EXCEPT ![t] = "holding"]
            /\ UNCHANGED rhandler
       ELSE /\ rhandler' = [rhandler EXCEPT ![t] = TRUE]
            /\ rpc' = [rpc EXCEPT ![t] = "sync_acquire"]
            /\ UNCHANGED robj
    /\ UNCHANGED <<dogpile, nested, entries, rvalues, rmutex, rexc, rfailed, rcalls, rcreated>>

\* _sync_get, line 49: self._mutex.acquire()
SyncAcquire(t) ==
    /\ rpc[t] = "sync_acquire"
    /\ RLockAcquire(t)
    /\ rpc' = [rpc EXCEPT ![t] = "sync_check"]
    /\ UNCHANGED <<dogpile, rother, rnested, entries, rvalues, robj, rexc, rhandler, rfailed, rcalls,
                   rcreated>>

SyncCheckNoRecheck(t) ==
    /\ rpc[t] = "sync_check"
    /\ RCallCreator(t, "sync_create")
    /\ UNCHANGED <<dogpile, nested, entries, rvalues, rmutex, robj, rexc, rhandler, rfailed,
                   rcreated>>

\* _sync_get, lines 52-55: `if identifier in self._values` under the mutex, else
\* the creator is called
SyncCheck(t) ==
    /\ rpc[t] = "sync_check"
    /\ IF rvalues # 0
       THEN /\ rpc' = [rpc EXCEPT ![t] = "sync_read"]
            /\ UNCHANGED rcalls
       ELSE RCallCreator(t, "sync_create")
    /\ UNCHANGED <<dogpile, nested, entries, rvalues, rmutex, robj, rexc, rhandler, rfailed,
                   rcreated>>

\* _sync_get, lines 53 and 57-58: `return self._values[identifier]`; the KeyError
\* of an entry that has gone since line 52 is caught and the creator is called
SyncRead(t) ==
    /\ rpc[t] = "sync_read"
    /\ IF rvalues # 0
       THEN /\ robj' = [robj EXCEPT ![t] = rvalues]
            /\ rpc' = [rpc EXCEPT ![t] = "sync_release"]
            /\ UNCHANGED rcalls
       ELSE /\ RCallCreator(t, "sync_create2")
            /\ UNCHANGED robj
    /\ UNCHANGED <<dogpile, nested, entries, rvalues, rmutex, rexc, rhandler, rfailed, rcreated>>

\* _sync_get, lines 55-56 and 58-59: the creator returns a new object, which is
\* stored under the identifier and returned
RegistryCreatorReturns(t) ==
    /\ rpc[t] \in {"sync_create", "sync_create2"}
    /\ rcreated' = rcreated + 1
    /\ rvalues' = rcreated + 1
    /\ robj' = [robj EXCEPT ![t] = rcreated + 1]
    /\ rpc' = [rpc EXCEPT ![t] = "sync_release"]
    /\ UNCHANGED <<dogpile, nested, entries, rmutex, rexc, rhandler, rfailed, rcalls>>

\* _sync_get, lines 55 and 57-58: the creator raises inside the inner try; a
\* KeyError is caught by `except KeyError` and the creator is called again
RegistryCreatorRaises(t, e) ==
    /\ rpc[t] = "sync_create"
    /\ rfailed' = [rfailed EXCEPT ![t] = IF rfailed[t] = "none" THEN e ELSE rfailed[t]]
    /\ IF e = "KeyError"
       THEN /\ RCallCreator(t, "sync_create2")
            /\ UNCHANGED rexc
       ELSE /\ rexc' = [rexc EXCEPT ![t] = e]
            /\ rpc' = [rpc EXCEPT ![t] = "sync_release"]
            /\ UNCHANGED rcalls
    /\ UNCHANGED <<dogpile, nested, entries, rvalues, rmutex, robj, rhandler, rcreated>>

\* _sync_get, line 58: the creator raises inside the `except KeyError` handler
RegistryCreatorRaisesAgain(t, e) ==
    /\ rpc[t] = "sync_create2"
    /\ rfailed' = [rfailed EXCEPT ![t] = IF rfailed[t] = "none" THEN e ELSE rfailed[t]]
    /\ rexc' = [rexc EXCEPT ![t] = e]
    /\ rpc' = [rpc EXCEPT ![t] = "sync_release"]
    /\ UNCHANGED <<dogpile, nested, entries, rvalues, rmutex, robj, rhandler, rcalls, rcreated>>

\* _sync_get, lines 60-61, then get, lines 44-46: the mutex is released; the
\* object is returned, or the exception leaves _sync_get: a KeyError leaving the
\* call at line 44 is caught at line 45 and _sync_get is called again
SyncRelease(t) ==
    /\ rpc[t] = "sync_release"
    /\ RLockRelease
    /\ IF rexc[t] = "none"
       THEN /\ rpc' = [rpc EXCEPT ![t] = "holding"]
            /\ UNCHANGED <<rexc, rhandler>>
       ELSE IF rexc[t] = "KeyError" /\ ~rhandler[t]
            THEN /\ rhandler' = [rhandler EXCEPT ![t] = TRUE]
                 /\ rexc' = [rexc EXCEPT ![t] = "none"]
                 /\ rpc' = [rpc EXCEPT ![t] = "sync_acquire"]
            ELSE /\ rpc' = [rpc EXCEPT ![t] = "raised"]
                 /\ UNCHANGED <<rexc, rhandler>>
    /\ UNCHANGED <<dogpile, rother, rnested, entries, rvalues, robj, rfailed, rcalls, rcreated>>

\* the thread is ready for its next get
RegistryReset(t) ==
    /\ rpc' = [rpc EXCEPT ![t] = "idle"]
    /\ robj' = [robj EXCEPT ![t] = 0]
    /\ rexc' = [rexc EXCEPT ![t] = "none"]
    /\ rhandler' = [rhandler EXCEPT ![t] = FALSE]
    /\ rfailed' = [rfailed EXCEPT ![t] = "none"]
    /\ rcalls' = [rcalls EXCEPT ![t] = 0]
    /\ rnested' = [rnested EXCEPT ![t] = 0]

\* the caller deletes its reference to the object get returned
Drop(t) ==
    /\ rpc[t] = "holding"
    /\ RegistryReset(t)
    /\ UNCHANGED <<dogpile, rdepth, rother, entries, rvalues, rmutex, rcreated>>

\* the exception leaves get
RegistryPropagate(t) ==
    /\ rpc[t] = "raised"
    /\ RegistryReset(t)
    /\ UNCHANGED <<dogpile, rdepth, rother, entries, rvalues, rmutex, rcreated>>

\* weakref.WeakValueDictionary: the entry of an object no longer strongly
\* referenced goes away, at once or when the collector runs
Collect ==
    /\ rvalues # 0
    /\ ~Referenced(rvalues)
    /\ rvalues' = 0
    /\ UNCHANGED <<dogpile, nested, entries, rmutex, rpc, robj, rexc, rhandler, rfailed,
                   rcalls, rcreated>>

\* the creator callback, called for the identifier at line 55, calls get(other)
\* on the same registry
NestedGet(t) ==
    /\ rpc[t] = "sync_create"
    /\ rnested[t] = 0
    /\ rpc' = [rpc EXCEPT ![t] = "nested_check"]
    /\ UNCHANGED <<dogpile, nested, entries, rvalues, rmutex, robj, rexc, rhandler, rfailed,
                   rcalls, rcreated>>

\* the inner get, lines 41-46: membership test and lookup outside the locked
\* path; an entry found is returned to the creator
NestedCheck(t) ==
    /\ rpc[t] = "nested_check"
    /\ IF rother # 0
       THEN /\ rnested' = [rnested EXCEPT ![t] = rother]
            /\ rpc' = [rpc EXCEPT ![t] = "sync_create"]
       ELSE /\ rpc' = [rpc EXCEPT ![t] = "nested_acquire"]
            /\ UNCHANGED rnested
    /\ UNCHANGED <<dogpile, rdepth, rother, entries, rvalues, rmutex, robj, rexc, rhandler,
                   rfailed, rcalls, rcreated>>

\* the inner _sync_get, line 49: self._mutex.acquire(), by the thread that is
\* inside the locked path of the outer get
NestedAcquire(t) ==
    /\ rpc[t] = "nested_acquire"
    /\ RLockAcquire(t)
    /\ rpc' = [rpc EXCEPT ![t] = "nested_sync_check"]
    /\ UNCHANGED <<dogpile, rother, rnested, entries, rvalues, robj, rexc, rhandler, rfailed,
                   rcalls, rcreated>>

\* the inner _sync_get, lines 52-56: the entry of the other identifier is
\* returned, or the creator makes its object, which is stored under it
NestedSyncCheck(t) ==
    /\ rpc[t] = "nested_sync_check"
    /\ IF rother # 0
       THEN /\ rnested' = [rnested EXCEPT ![t] = rother]
            /\ UNCHANGED <<rother, rcreated>>
       ELSE /\ rcreated' = rcreated + 1
            /\ rother' = rcreated + 1
            /\ rnested' = [rnested EXCEPT ![t] = rcreated + 1]
    /\ rpc' = [rpc EXCEPT ![t] = "nested_release"]
    /\ UNCHANGED <<dogpile, rdepth, entries, rvalues, rmutex, robj, rexc, rhandler, rfailed,
                   rcalls>>

\* the inner _sync_get, lines 60-61: self._mutex.release(); the inner get
\* returns to the creator
NestedRelease(t) ==
    /\ rpc[t] = "nested_release"
    /\ RLockRelease
    /\ rpc' = [rpc EXCEPT ![t] = "sync_create"]
    /\ UNCHANGED <<dogpile, rother, rnested, entries, rvalues, robj, rexc, rhandler, rfailed,
                   rcalls, rcreated>>

\* the entry of the other identifier goes away with the last reference to its
\* object
CollectOther ==
    /\ rother # 0
    /\ ~Referenced(rother)
    /\ rother' = 0
    /\ UNCHANGED <<dogpile, rdepth, rnested, entries, rvalues, rmutex, rpc, robj, rexc,
                   rhandler, rfailed, rcalls, rcreated>>

(* --------------------------- specifications --------------------------- *)

\* a Lock over an external store; creator and probe may raise
Next ==
    \/ Tick
    \/ \E t \in Procs : Enter(t)
    \/ \E t \in Procs : EnterProbeFails(t)
    \/ \E t \in Procs : EnterCreate(t)
    \/ \E t \in Procs : TryAcquire(t)
    \/ \E t \in Procs : Acquire(t)
    \/ \E t \in Procs : ProbeUnderMutex(t)
    \/ \E t \in Procs : ProbeUnderMutexFails(t)
    \/ \E t \in Procs : CreatorReturns(t)
    \/ \E t \in Procs : CreatorRaises(t)
    \/ \E t \in Procs : Release(t)
    \/ \E t \in Procs : Resolve(t)
    \/ \E t \in Procs : Exit(t)
    \/ \E t \in Procs : Propagate(t)

Spec == Init /\ [][Next]_vars

\* the run of tests/core/test_lock.py: the creator always appends its value to
\* the store and the probe never fails
NextStore ==
    \/ Tick
    \/ \E t \in Procs : Enter(t)
    \/ \E t \in Procs : EnterCreate(t)
    \/ \E t \in Procs : TryAcquire(t)
    \/ \E t \in Procs : Acquire(t)
    \/ \E t \in Procs : ProbeUnderMutex(t)
    \/ \E t \in Procs : CreatorReturns(t)
    \/ \E t \in Procs : Release(t)
    \/ \E t \in Procs : Resolve(t)
    \/ \E t \in Procs : Exit(t)

SpecStore == Init /\ [][NextStore]_vars

\* the cache behind the probe drops its value (tests/test_get_fn.py, cache();
\* tests/core/test_lock.py, get_value with cache_expire_time): the probe raises
\* NeedRegenerationException until a creator stores a value again
Invalidate ==
    /\ mode \in StoreModes
    /\ store # <<>>
    /\ store' = <<>>
    /\ UNCHANGED <<config, registry, now, mutex, dcreatedtime, rwlock, pc, locals,
                   ncreate, ndone, lastdone, entries>>

\* a Lock over a cache that may drop its value at any time
NextCache ==
    \/ NextStore
    \/ Invalidate

\* the value expires after one clock unit, so that it is due both by age and by
\* the cache dropping it
InitCache ==
    /\ Init
    /\ expiretime = <<1>>

SpecCache == InitCache /\ [][NextCache]_vars

\* a Lock whose creator may return its value without populating the store
NextUnstored ==
    \/ NextStore
    \/ \E t \in Procs : CreatorReturnsUnstored(t)

SpecUnstored == Init /\ [][NextUnstored]_vars

\* a Lock whose creator chooses the createdtime it returns
NextBackdated ==
    \/ NextStore
    \/ \E t \in Procs : CreatorReturnsBackdated(t)

\* the value lives for one clock unit
InitBackdated ==
    /\ Init
    /\ expiretime = <<1>>

SpecBackdated == InitBackdated /\ [][NextBackdated]_vars

\* a Lock whose creator enters a scope of the same Lock
NextReenter ==
    \/ NextStore
    \/ \E t \in Procs : Reenter(t)
    \/ \E t \in Procs : InnerEnterCreate(t)
    \/ \E t \in Procs : InnerTryAcquire(t)
    \/ \E t \in Procs : InnerExit(t)

SpecReenter == InitCache /\ [][NextReenter]_vars

\* a Lock over a store, entered with and without a runner as fifth argument
NextRunner ==
    \/ NextStore
    \/ \E t \in Procs : EnterWithRunner(t)
    \/ \E t \in Procs : ConstructWithRunner(t)
    \/ \E t \in Procs : Propagate(t)

SpecRunner == InitCache /\ [][NextRunner]_vars

\* time passes between the arrivals of callers only: while every thread is
\* outside its scope (the delay_time of the tests)
TickIdle ==
    /\ \A t \in Procs : pc[t] = "idle"
    /\ Tick

\* the run of tests/core/test_lock.py with entries, creator runs and scope
\* bodies that each take less than one clock unit
NextArrivals ==
    \/ TickIdle
    \/ \E t \in Procs : Enter(t)
    \/ \E t \in Procs : EnterCreate(t)
    \/ \E t \in Procs : TryAcquire(t)
    \/ \E t \in Procs : Acquire(t)
    \/ \E t \in Procs : ProbeUnderMutex(t)
    \/ \E t \in Procs : CreatorReturns(t)
    \/ \E t \in Procs : Release(t)
    \/ \E t \in Procs : Resolve(t)
    \/ \E t \in Procs : Exit(t)

SpecArrivals == Init /\ [][NextArrivals]_vars

\* Dogpile(expiretime, init).acquire(creator): the probe is synthesized from
\* Dogpile.createdtime
InitDogpile ==
    /\ mode = "dogpile"
    /\ sync = FALSE
    /\ expiretime \in ExpireTimes
    /\ dcreatedtime \in {NEVER, StartTime}
    /\ InitShared
    /\ InitLocals

SpecDogpile == InitDogpile /\ [][NextStore]_vars

\* Dogpile(1, init=True).acquire(creator, value_fn) over a cache that may drop
\* its value (tests/test_get_fn.py): the probe is value_fn() paired with
\* Dogpile.createdtime, and value_fn raises NeedRegenerationException while the
\* cache is empty
InitGetFn ==
    /\ mode = "getfn"
    /\ sync = FALSE
    /\ expiretime = <<1>>
    /\ dcreatedtime = StartTime
    /\ InitShared
    /\ InitLocals

SpecGetFn == InitGetFn /\ [][NextCache]_vars

\* SyncReaderDogpile(expiretime).acquire(creator, value_and_created_fn=get_value),
\* the creator hiding the resource list inside acquire_write_lock()
InitSync ==
    /\ mode = "lock"
    /\ sync = TRUE
    /\ expiretime \in ExpireTimes
    /\ dcreatedtime = NEVER
    /\ InitShared
    /\ InitLocals

NextSync ==
    \/ NextStore
    \/ \E t \in Procs : RequestWriteLock(t)
    \/ \E t \in Procs : AcquireWriteLock(t)
    \/ \E t \in Procs : ReleaseWriteLock(t)

SpecSync == InitSync /\ [][NextSync]_vars

\* a step of thread t inside an entry it has begun, on a cold start: the
\* creator returns or raises, the scope body ends, the exception reaches the
\* caller
RunCold(t) ==
    \/ EnterCreate(t)
    \/ Acquire(t)
    \/ ProbeUnderMutex(t)
    \/ CreatorReturns(t)
    \/ CreatorRaises(t)
    \/ Release(t)
    \/ Resolve(t)
    \/ Exit(t)
    \/ Propagate(t)

\* a cold start over a value that never expires, with a creator that may raise
InitCold ==
    /\ Init
    /\ expiretime = NoExpiry

NextCold ==
    \/ Tick
    \/ \E t \in Procs : Enter(t)
    \/ \E t \in Procs : RunCold(t)

\* every running thread keeps taking steps, the creator terminates, and a thread
\* waiting for the mutex is not passed over forever
Fairness ==
    \A t \in Procs : WF_vars(RunCold(t)) /\ SF_vars(Acquire(t))

SpecColdFair == InitCold /\ [][NextCold]_vars /\ Fairness

\* a step of thread t inside an entry it has begun, cold or warm
Run(t) ==
    \/ RunCold(t)
    \/ TryAcquire(t)

\* callers over a value that lives for one clock unit, with a creator that may
\* raise
NextFair ==
    \/ Tick
    \/ \E t \in Procs : Enter(t)
    \/ \E t \in Procs : Run(t)

\* every running thread keeps taking steps, creator and probe terminate, and the
\* mutex is granted fairly to the threads that wait for it
FairnessAll ==
    \A t \in Procs : WF_vars(Run(t)) /\ SF_vars(Acquire(t))

\* the Lock under contention: constructed over an empty store with a value that
\* lives for one clock unit, at a clock reading that leaves room for one expiry
InitFair ==
    /\ mode = "lock"
    /\ sync = FALSE
    /\ expiretime = <<1>>
    /\ dcreatedtime = NEVER
    /\ now = MaxTime - 2
    /\ InitUnclocked
    /\ InitLocals

SpecFair == InitFair /\ [][NextFair]_vars /\ FairnessAll

\* SyncReaderDogpile(expiretime) of src/dogpile/dogpile.py, no value yet
InitLegacySync ==
    /\ mode = "legacy"
    /\ sync = TRUE
    /\ expiretime \in {<<e>> : e \in 1..MaxTime}
    /\ dcreatedtime = NEVER
    /\ InitShared
    /\ InitLocals

\* the run of tests/test_dogpile.py with slow_write_time: scopes hold the read
\* lock, the creator takes the write lock; threads may also take the write lock
\* on their own
NextLegacySync ==
    \/ Tick
    \/ \E t \in Procs : LegacyEnter(t)
    \/ \E t \in Procs : LegacyCheck(t)
    \/ \E t \in Procs : LegacyHasValue(t)
    \/ \E t \in Procs : TryAcquire(t)
    \/ \E t \in Procs : Acquire(t)
    \/ \E t \in Procs : LegacyRecheck(t)
    \/ \E t \in Procs : RequestWriteLock(t)
    \/ \E t \in Procs : AcquireWriteLock(t)
    \/ \E t \in Procs : ReleaseWriteLock(t)
    \/ \E t \in Procs : LegacyCreatorReturns(t)
    \/ \E t \in Procs : Release(t)
    \/ \E t \in Procs : LegacyAcquireRead(t)
    \/ \E t \in Procs : LegacyExit(t)
    \/ \E t \in Procs : DirectRequestWrite(t)
    \/ \E t \in Procs : DirectAcquireWrite(t)
    \/ \E t \in Procs : DirectReleaseWrite(t)

SpecLegacySync == InitLegacySync /\ [][NextLegacySync]_vars

\* Dogpile(1).acquire(creator, value_and_created_fn=...) of src/dogpile/dogpile.py
\* over a cache that may drop its value
InitLegacyFn ==
    /\ mode = "legacyfn"
    /\ sync = FALSE
    /\ expiretime = <<1>>
    /\ dcreatedtime = NEVER
    /\ InitShared
    /\ InitLocals

NextLegacyFn ==
    \/ Tick
    \/ Invalidate
    \/ \E t \in Procs : LegacyProbe(t)
    \/ \E t \in Procs : LegacySetCreatedtime(t)
    \/ \E t \in Procs : LegacyCheck(t)
    \/ \E t \in Procs : LegacyHasValue(t)
    \/ \E t \in Procs : TryAcquire(t)
    \/ \E t \in Procs : Acquire(t)
    \/ \E t \in Procs : LegacyRecheck(t)
    \/ \E t \in Procs : LegacyCreatorReturns(t)
    \/ \E t \in Procs : Release(t)
    \/ \E t \in Procs : LegacyResolve(t)
    \/ \E t \in Procs : Exit(t)
    \/ \E t \in Procs : Propagate(t)

SpecLegacyFn == InitLegacyFn /\ [][NextLegacyFn]_vars

\* threads calling get(identifier) on one NameRegistry with one identifier,
\* holding the object for a while and dropping it
NextRegistry ==
    \/ \E t \in Procs : Get(t)
    \/ \E t \in Procs : GetCheck(t)
    \/ \E t \in Procs : GetRead(t)
    \/ \E t \in Procs : SyncAcquire(t)
    \/ \E t \in Procs : SyncCheck(t)
    \/ \E t \in Procs : SyncRead(t)
    \/ \E t \in Procs : RegistryCreatorReturns(t)
    \/ \E t \in Procs : \E e \in CreatorErrors : RegistryCreatorRaises(t, e)
    \/ \E t \in Procs : \E e \in CreatorErrors : RegistryCreatorRaisesAgain(t, e)
    \/ \E t \in Procs : SyncRelease(t)
    \/ \E t \in Procs : Drop(t)
    \/ \E t \in Procs : RegistryPropagate(t)
    \/ Collect

\* NameRegistry(creator): no entry, the mutex free
InitRegistry ==
    /\ Init
    /\ expiretime = NoExpiry

SpecRegistry == InitRegistry /\ [][NextRegistry]_vars

\* a NameRegistry whose creator, which does not raise, calls get on the registry
\* for a second identifier
NextNested ==
    \/ \E t \in Procs : Get(t)
    \/ \E t \in Procs : GetCheck(t)
    \/ \E t \in Procs : GetRead(t)
    \/ \E t \in Procs : SyncAcquire(t)
    \/ \E t \in Procs : SyncCheck(t)
    \/ \E t \in Procs : SyncRead(t)
    \/ \E t \in Procs : RegistryCreatorReturns(t)
    \/ \E t \in Procs : SyncRelease(t)
    \/ \E t \in Procs : Drop(t)
    \/ Collect
    \/ \E t \in Procs : NestedGet(t)
    \/ \E t \in Procs : NestedCheck(t)
    \/ \E t \in Procs : NestedAcquire(t)
    \/ \E t \in Procs : NestedSyncCheck(t)
    \/ \E t \in Procs : NestedRelease(t)
    \/ CollectOther

SpecNested == InitRegistry /\ [][NextNested]_vars

(* ------------------------------- claims ------------------------------- *)

\* the positions at which a thread is between its acquire of the creation mutex
\* and the release in the finally clause
Holding == {"locked", "creating", "write_wait", "writing", "written", "release"}

\* the threads inside the creator callback
Creating == {t \in Procs : pc[t] \in {"creating", "write_wait", "writing", "written"}}

\* C1: at most one thread is executing the creator at any instant, and that
\* thread holds the creation mutex
C1_CreatorsExclusive ==
    /\ Cardinality(Creating) <= 1
    /\ \A t \in Creating : mutex = t

\* a creator runs while another thread has arrived at the mutex with a stale value
C1_Witness ==
    \E t, u \in Procs :
        /\ t # u
        /\ pc[t] = "creating"
        /\ pc[u] = "try_acquire"

\* C2: a caller whose initial probe returned a present but expired value never
\* waits for the creation mutex: it is never at the blocking acquire and never
\* holds the mutex through one, its non-blocking acquire can always be taken,
\* and when that acquire fails the entry goes on, without calling creator, to
\* yield the stale probe value
C2_StaleNeverBlocks ==
    \A t \in Procs :
        /\ pc[t] = "acquire" => ~HasValue(createdtime[t])
        /\ (pc[t] \in Holding /\ acq[t] = "blocking") => ~HasValue(createdtime[t])
        /\ pc[t] = "try_acquire" => HasValue(createdtime[t]) /\ ENABLED TryAcquire(t)
        /\ (pc[t] \in {"resolve", "body"} /\ ~fresh[t] /\ acq[t] = "none")
              => /\ ~invoked[t]
                 /\ generated[t] = NOT_REGENERATED
                 /\ value[t] # NOT_REGENERATED
                 /\ HasValue(createdtime[t])
                 /\ pc[t] = "resolve" => ENABLED Resolve(t)
                 /\ pc[t] = "body" => yielded[t] = value[t]

\* a thread is in its scope with the stale value, its non-blocking acquire having
\* failed, while the other thread's creator is still running
C2_Witness ==
    \E t, u \in Procs :
        /\ pc[t] = "body" /\ ~fresh[t] /\ acq[t] = "none"
        /\ yielded[t] = value[t]
        /\ IsExpired(createdtime[t], now)
        /\ pc[u] = "creating"

\* C4: an entry whose initial probe was found present and unexpired attempts no
\* acquire of the creation mutex, calls no creator, is never made to wait and
\* yields the probed value
C4_FreshNoAcquire ==
    \A t \in Procs :
        fresh[t] =>
            /\ pc[t] \in {"resolve", "body"}
            /\ acq[t] = "none"
            /\ ~invoked[t]
            /\ mutex # t
            /\ pc[t] = "resolve" => ENABLED Resolve(t)
            /\ pc[t] = "body" => yielded[t] = value[t]

\* a thread is in its scope with a value found fresh while another thread holds
\* the creation mutex and runs the creator
C4_Witness ==
    \E t, u \in Procs :
        /\ pc[t] = "body" /\ fresh[t] /\ yielded[t] = value[t]
        /\ value[t] # NOT_REGENERATED
        /\ pc[u] = "creating" /\ mutex = u

\* C5: the creation mutex is held only between the acquire and the finally clause;
\* an exception raised by the creator or by the probe stays with the thread that
\* called it, which leaves the entry with that exception and without the mutex
C5_MutexReleased ==
    \A t \in Procs :
        /\ mutex = t => pc[t] \in Holding
        /\ pc[t] \in {"idle", "resolve", "body", "raised"} => mutex # t
        /\ pc[t] = "raised" => exc[t] # "none"
        /\ exc[t] # "none" => pc[t] \in {"release", "raised"}
        /\ (exc[t] = "CreatorFailure" => invoked[t])
        /\ (pc[t] = "release" => mutex = t)

\* a creator raised under the mutex, the exception reached the caller, and the
\* mutex has since been taken by another thread
C5_Witness ==
    \E t, u \in Procs :
        /\ pc[t] = "raised" /\ exc[t] = "CreatorFailure" /\ acq[t] # "none"
        /\ mutex = u /\ u # t

\* the probe raised under the mutex and the mutex is free again
C5_WitnessProbe ==
    \E t \in Procs :
        /\ pc[t] = "raised" /\ exc[t] = "ProbeFailure" /\ acq[t] # "none"
        /\ mutex = 0

\* the value cannot expire before the clock stops
NeverExpires == expiretime = NoExpiry \/ expiretime[1] >= MaxTime - StartTime

\* C3: on a cold start with a creator that stores its result and a value that
\* does not expire during the run, the creator is invoked once in total, no
\* entry returns before that invocation has returned, and every entry yields
\* the value it made
C3_ColdStartOnce ==
    NeverExpires =>
        /\ ncreate <= 1
        /\ \A t \in Procs :
              pc[t] = "body" =>
                  /\ ncreate = 1
                  /\ ndone = 1
                  /\ Creating = {}
                  /\ store # <<>>
                  /\ yielded[t] = store[1]
                  /\ yielded[t] = Val(1)

\* every thread probed the empty store, and all are in their scopes at once with
\* the value of the single creation
C3_Witness ==
    /\ NeverExpires
    /\ ncreate = 1
    /\ \A t \in Procs :
          /\ pc[t] = "body"
          /\ value[t] = NOT_REGENERATED
          /\ yielded[t] = Val(1)

\* ceil(a / b) for a >= 0, b > 0
CeilDiv(a, b) == (a + b - 1) \div b

\* ceil(T / E) + 1 for the time T elapsed so far; nothing is ever due again
\* when the value never expires
MaxGenerations ==
    IF expiretime = NoExpiry THEN 1
    ELSE CeilDiv(now - StartTime, expiretime[1]) + 1

\* C7: with a probe that returns what the creator last stored, the number of
\* creator invocations stays within ceil(T/E) + 1, and while a creator runs the
\* last stored value, if any, is older than expiretime
C7_GenerationsBounded ==
    /\ ncreate <= MaxGenerations
    /\ \A t \in Creating :
          \/ store = <<>>
          \/ /\ expiretime # NoExpiry
             /\ now - store[2] > expiretime[1]

\* a second generation is under way, the first value having expired
C7_Witness ==
    /\ ncreate = 2
    /\ ndone = 1
    /\ Creating # {}
    /\ store # <<>>
    /\ now - store[2] > expiretime[1]

\* a creator has just raised in t on a cold start while u waits for the mutex
CreatorFailedWithWaiter(t, u) ==
    /\ t # u
    /\ pc[t] = "release" /\ exc[t] = "CreatorFailure"
    /\ store = <<>>
    /\ pc[u] = "acquire"

LastCreationFresh ==
    /\ lastdone # NEVER
    /\ expiretime = NoExpiry \/ now - lastdone <= expiretime[1]

C9_NoExpiryCreatesOnce ==
    expiretime = NoExpiry => ncreate <= 1

\* C10: no thread is in the body of an acquire scope of a SyncReaderDogpile
\* while the creator is inside its acquire_write_lock() section, so no scope
\* body sees the emptied resource list
C10_ReadersFenced ==
    \A t, u \in Procs :
        pc[t] = "body" => (pc[u] # "writing" /\ writer = 0 /\ store # <<>>)

\* the threads inside the body of their acquire scope
InScope == {t \in Procs : pc[t] = "body"}

\* C11: every thread inside the body of an acquire scope of a SyncReaderDogpile
\* holds the read lock, taken once its value was resolved and given back when
\* the scope exits: the reader count is the number of threads in a scope body
C11_ReadLockHeldInScope ==
    sync => readers = Cardinality(InScope)

\* C12: while a writer holds or awaits the write lock of a SyncReaderDogpile no
\* thread newly enters a scope body, and a writer becomes active only when no
\* thread is inside a scope body
C12_WritersPreferred ==
    [][/\ \A t \in Procs :
              ((wpending \/ writer # 0) /\ pc[t] # "body") => pc'[t] # "body"
       /\ (writer = 0 /\ writer' # 0) => InScope = {}]_vars

\* C16: NeedRegenerationException raised by the probe is caught where the probe
\* is called: no entry carries it as its exception, an entry whose initial
\* probe raised it goes on without a value and without a creation time, and an
\* entry whose probe under the mutex raised it goes on to the creator
C16_NeedRegenerationConsumed ==
    \A t \in Procs :
        /\ exc[t] # "NeedRegenerationException"
        /\ (value[t] = NOT_REGENERATED /\ pc[t] \in {"enter_create", "acquire", "locked"})
              => createdtime[t] = NEVER /\ exc[t] = "none"
        /\ pc[t] = "release" => exc[t] = "none"
        /\ pc[t] \in {"resolve", "body"} => exc[t] = "none"

\* the initial probe found the cache empty, the cache was empty again at the
\* probe under the mutex, and the entry is in its scope with a created value
C16_Witness ==
    \E t \in Procs :
        /\ pc[t] = "body"
        /\ value[t] = NOT_REGENERATED
        /\ invoked[t]
        /\ yielded[t] = Val(2)

\* the probe, called now, returns a present and unexpired value
ProbeFindsFresh ==
    /\ store # <<>>
    /\ store[2] > 0
    /\ expiretime = NoExpiry \/ now - store[2] <= expiretime[1]

\* C20: the step a thread takes after obtaining the creation mutex is the probe,
\* made while it holds the mutex: on a present, unexpired value the thread
\* keeps that value as its result and calls no creator, otherwise it calls
\* creator; the entry then yields the value found or the creator's result
C20_DoubleCheck ==
    [][\A t \in Procs :
          /\ (pc[t] = "locked" /\ pc'[t] # "locked" /\ exc'[t] = "none") =>
                /\ mutex = t /\ mutex' = t
                /\ acq[t] \in {"blocking", "nonblocking"}
                /\ IF ProbeFindsFresh
                   THEN /\ generated'[t] = store
                        /\ invoked'[t] = invoked[t]
                        /\ ncreate' = ncreate
                        /\ pc'[t] = "release"
                   ELSE /\ invoked'[t]
                        /\ ncreate' = ncreate + 1
                        /\ pc'[t] = "creating"
          /\ (pc[t] = "creating" /\ pc'[t] = "release" /\ exc'[t] = "none") =>
                generated'[t] = <<Val(ncreate), now>>
          /\ (pc[t] = "resolve" /\ acq[t] # "none") =>
                /\ generated[t] # NOT_REGENERATED
                /\ pc'[t] = "body" => yielded'[t] = generated[t][1]]_vars

\* a thread whose non-blocking acquire succeeded found a fresh value under the
\* mutex and is in its scope with it, no creator called
C20_Witness ==
    \E t \in Procs :
        /\ pc[t] = "body"
        /\ acq[t] = "nonblocking"
        /\ ~invoked[t]
        /\ yielded[t] = generated[t][1]

\* the cache was emptied after the initial probe: the probe under the mutex of a
\* non-blocking acquire signalled NeedRegenerationException and the creator runs
C20_WitnessRegen ==
    \E t \in Procs :
        /\ pc[t] = "creating"
        /\ acq[t] = "nonblocking"
        /\ store = <<>>

\* C17 as stated: an entry whose initial probe signalled NeedRegenerationException
\* is never in its scope while the store is still empty (the probe would still
\* signal it): it would have failed with the fatal error
C17_FatalWhenUnpopulated ==
    \A t \in Procs :
        (pc[t] = "body" /\ value[t] = NOT_REGENERATED) => store # <<>>

\* C17, amended: an entry whose initial probe signalled NeedRegenerationException
\* and whose creation step ran yields what the creator returned, without a
\* re-probe, also when the store is still empty; the fatal error belongs to an
\* entry that got NOT_REGENERATED from the creation step, and no entry of
\* Lock does
C17_CreatedValueYieldedUnprobed ==
    \A t \in Procs :
        /\ (pc[t] = "resolve" /\ value[t] = NOT_REGENERATED) =>
              /\ generated[t] # NOT_REGENERATED
              /\ acq[t] = "blocking"
        /\ (pc[t] = "body" /\ value[t] = NOT_REGENERATED) =>
              /\ yielded[t] = generated[t][1]
              /\ invoked[t] => yielded[t] \in {Val(n) : n \in 1..ncreate}
        /\ exc[t] = "Fatal" => (generated[t] = NOT_REGENERATED /\ ~invoked[t])
        /\ exc[t] # "Fatal"

\* the creator of this entry ran and stored nothing: the entry is in its scope
\* with the creator's value while the probe would still signal
\* NeedRegenerationException
C17_Witness ==
    \E t \in Procs :
        /\ pc[t] = "body"
        /\ value[t] = NOT_REGENERATED
        /\ invoked[t]
        /\ store = <<>>
        /\ yielded[t] = Val(1)

\* C19 as stated: with neither value_fn nor value_and_created_fn every scope of
\* Dogpile.acquire is entered with None
C19_YieldsNone ==
    mode = "dogpile" => \A t \in Procs : pc[t] = "body" => yielded[t] = None

\* C19, amended: with neither value_fn nor value_and_created_fn the scope is
\* entered with None when the value was found fresh, at entry or under the
\* mutex, or a stale value was served, and with the return value of creator()
\* when this caller's creator has just run
C19_NoneUnlessCreated ==
    mode = "dogpile" =>
        \A t \in Procs :
            pc[t] = "body" =>
                IF invoked[t]
                THEN /\ yielded[t] = generated[t][1]
                     /\ yielded[t] \in {Val(n) : n \in 1..ncreate}
                ELSE yielded[t] = None

\* one thread is in its scope with the value its creator returned while the
\* other, turned away by the held mutex with a stale value, had None
C19_Witness ==
    \E t, u \in Procs :
        /\ mode = "dogpile"
        /\ pc[t] = "body" /\ invoked[t] /\ yielded[t] = Val(1)
        /\ pc[u] = "body" /\ ~invoked[u] /\ ~fresh[u] /\ acq[u] = "none"
        /\ yielded[u] = None

\* a value created at ct is older than expiretime at time t
Aged(ct, t) == expiretime # NoExpiry /\ t - ct > expiretime[1]

\* C18 as stated, for creator runs, entries and scope bodies shorter than one
\* clock unit: the value a scope is entered with is no older than expiretime,
\* whenever the callers arrive
C18_AgeWithinExpiretime ==
    [][\A t \in Procs :
          (pc[t] = "resolve" /\ pc'[t] = "body") => ~Aged(createdtime'[t], now')]_vars

\* C18, amended: a scope is entered with a value older than expiretime only by
\* an entry whose probe returned that value and whose non-blocking acquire was
\* refused, and the acquire is refused only while another thread holds the
\* creation mutex; every other entry has a value within expiretime
C18_StaleOnlyDuringRegeneration ==
    [][\A t \in Procs :
          /\ (pc[t] = "resolve" /\ pc'[t] = "body" /\ Aged(createdtime'[t], now')) =>
                /\ ~fresh[t]
                /\ acq[t] = "none"
                /\ ~invoked[t]
                /\ generated[t] = NOT_REGENERATED
                /\ yielded'[t] = value[t]
          /\ (pc[t] = "try_acquire" /\ pc'[t] = "resolve") =>
                \E u \in Procs \ {t} : mutex = u /\ pc[u] \in Holding]_vars

\* no caller arrived for more than expiretime after the value expired: one thread
\* regenerates, the other is in its scope with a value twice as old as
\* expiretime
C18_Witness ==
    \E t, u \in Procs :
        /\ pc[t] = "body" /\ acq[t] = "none" /\ ~fresh[t]
        /\ expiretime # NoExpiry
        /\ now - createdtime[t] >= 2 * expiretime[1]
        /\ pc[u] = "creating"

\* the threads to which get has returned an object they still refer to
Holders == {t \in Procs : rpc[t] = "holding"}

\* the threads inside the creator of the NameRegistry
RegistryCreating == {t \in Procs : rpc[t] \in {"sync_create", "sync_create2"}}

\* C14: while a thread refers to an object get returned, that object is the
\* entry of the identifier, every thread to which get has returned holds that
\* same object, and no creator runs for the identifier; creators run one at a
\* time, under the registry's mutex
C14_SameObject ==
    /\ \A t \in Holders :
          /\ robj[t] # 0
          /\ rvalues = robj[t]
          /\ RegistryCreating = {}
    /\ \A t, u \in Holders : robj[t] = robj[u]
    /\ \A t \in RegistryCreating : rmutex = t

\* both threads called get while no entry existed; one made the object, the
\* other found it under the mutex, and both hold the one object made
C14_Witness ==
    \E t, u \in Procs :
        /\ t # u
        /\ rpc[t] = "holding" /\ rpc[u] = "holding"
        /\ rcalls[t] = 1 /\ rcalls[u] = 0
        /\ robj[t] = 1 /\ robj[u] = 1
        /\ rcreated = 1

\* C15: once the creator has raised in a get, that get ends with that exception:
\* it is on its way out of _sync_get or has reached the caller, it calls no
\* creator again and it has no object
C15_CreatorFailurePropagates ==
    \A t \in Procs :
        rfailed[t] # "none" =>
            /\ rpc[t] \in {"sync_release", "raised"}
            /\ rexc[t] = rfailed[t]
            /\ robj[t] = 0

\* the threads that hold the write lock of the ReadWriteMutex
Writers == {t \in Procs : pc[t] \in {"writing", "direct_writing"}}

\* C13: the reader count of the ReadWriteMutex is never negative and is the
\* number of read locks held, at most one thread holds the write lock, and
\* while a thread holds it the reader count is zero
C13_ReadWriteInvariants ==
    /\ readers >= 0
    /\ readers = Cardinality(InScope)
    /\ Cardinality(Writers) <= 1
    /\ \A t \in Writers : writer = t /\ readers = 0
    /\ writer # 0 => writer \in Writers

\* a creator has set the pending-writer flag and waits for the write lock behind
\* a reader that is still in its scope
C13_Witness ==
    \E t, u \in Procs :
        /\ pc[t] = "write_wait" /\ wpending
        /\ pc[u] = "body" /\ readers = 1

\* a thread holds the write lock while another, its value resolved, waits for
\* the read lock
C13_WitnessWriter ==
    \E t, u \in Procs :
        /\ pc[t] = "writing" /\ writer = t
        /\ pc[u] = "resolve" /\ readers = 0

\* C22: an exception other than NeedRegenerationException raised by the initial
\* probe reaches the caller: the thread has not acquired the creation mutex, does
\* not hold it and has not called the creator, and nothing it probed is kept
C22_ProbeFailurePropagates ==
    \A t \in Procs :
        (exc[t] = "ProbeFailure" /\ acq[t] = "none") =>
            /\ pc[t] = "raised"
            /\ mutex # t
            /\ ~invoked[t]
            /\ generated[t] = NOT_REGENERATED
            /\ ENABLED Propagate(t)

\* the initial probe of one thread failed while another thread runs the creator
C22_Witness ==
    \E t, u \in Procs :
        /\ pc[t] = "raised" /\ exc[t] = "ProbeFailure" /\ acq[t] = "none"
        /\ pc[u] = "creating" /\ mutex = u

\* the creation times and the clock readings the expiry test is evaluated on
TimeStamps == NEVER .. MaxTime

\* C23: Lock._is_expired(createdtime) is false exactly when createdtime > 0 and
\* (expiretime is None or now - createdtime <= expiretime); a createdtime of 0 or
\* below is no value and is expired, an age equal to expiretime is fresh, and
\* Dogpile.is_expired and Dogpile.has_value are the same predicate on the
\* Dogpile's own createdtime.  Every entry applies the test to what it probed.
C23_IsExpiredPredicate ==
    /\ \A ct \in TimeStamps : \A t \in TimeStamps :
        /\ IsExpired(ct, t) <=>
              ~(ct > 0 /\ (expiretime = NoExpiry \/ t - ct <= expiretime[1]))
        /\ HasValue(ct) <=> ct > 0
        /\ ct <= 0 => IsExpired(ct, t)
        /\ (ct > 0 /\ expiretime # NoExpiry /\ t - ct = expiretime[1]) => ~IsExpired(ct, t)
    /\ \A t \in TimeStamps : DogpileIsExpired(t) <=> IsExpired(dcreatedtime, t)
    /\ DogpileHasValue <=> HasValue(dcreatedtime)
    /\ \A t \in Procs :
        /\ pc[t] \in {"try_acquire", "acquire"} => ~fresh[t]
        /\ pc[t] = "acquire" => createdtime[t] <= 0
        /\ pc[t] = "try_acquire" =>
              createdtime[t] > 0 /\ expiretime # NoExpiry /\ now - createdtime[t] > expiretime[1]
        /\ fresh[t] => createdtime[t] > 0

\* a value whose age equals expiretime exactly has been found fresh
C23_Witness ==
    \E t \in Procs :
        /\ pc[t] = "resolve" /\ fresh[t] /\ acq[t] = "none"
        /\ expiretime # NoExpiry /\ now - createdtime[t] = expiretime[1]
        /\ createdtime[t] = dcreatedtime /\ ~DogpileIsExpired(now)

\* a Dogpile with no value: the entry takes the blocking acquire
C23_WitnessNoValue ==
    \E t \in Procs :
        /\ pc[t] = "acquire" /\ createdtime[t] = NEVER /\ ~DogpileHasValue

\* C24: what the creator returns is yielded to the caller that ran it whatever
\* its createdtime, also one already older than expiretime; a caller whose probe
\* returns a createdtime older than expiretime does not take the value for fresh:
\* it goes for the mutex without blocking and, under the mutex, finding the
\* value still that old, runs the creator again
C24_BackdatedYieldedThenRecreated ==
    [][\A t \in Procs :
          /\ (pc[t] = "resolve" /\ invoked[t] /\ pc'[t] # "resolve") =>
                /\ generated[t] # NOT_REGENERATED
                /\ pc'[t] = "body"
                /\ yielded'[t] = generated[t][1]
          /\ (pc[t] = "enter_create" /\ pc'[t] # "enter_create"
                /\ HasValue(createdtime[t]) /\ Aged(createdtime[t], now)) =>
                /\ pc'[t] = "try_acquire"
                /\ ~fresh'[t]
          /\ (pc[t] = "locked" /\ pc'[t] # "locked"
                /\ store # <<>> /\ Aged(store[2], now)) =>
                /\ pc'[t] = "creating"
                /\ ncreate' = ncreate + 1
      ]_vars

\* the first creator returned a createdtime that was already older than
\* expiretime; its caller is in the scope with the value, and a second caller,
\* having probed that createdtime, is running the creator
C24_Witness ==
    \E t, u \in Procs :
        /\ ndone = 1 /\ ncreate = 2
        /\ pc[t] = "body" /\ invoked[t] /\ yielded[t] = Val(1)
        /\ Aged(createdtime[t], lastdone)
        /\ pc[u] = "creating" /\ createdtime[u] = createdtime[t]

\* the entry of t began with a probe that raised NeedRegenerationException
ProbedNoValue(t) ==
    /\ value[t] = NOT_REGENERATED
    /\ pc[t] \in {"enter_create", "try_acquire", "acquire", "locked", "creating", "release"}

C25_WitnessFresh ==
    \E t \in Procs :
        /\ pc[t] = "release" /\ value[t] = NOT_REGENERATED /\ acq[t] = "blocking"
        /\ ~invoked[t] /\ generated[t] # NOT_REGENERATED

\* C21: Dogpile.createdtime changes only in a step of the thread that holds the
\* creation mutex
C21_CreatedtimeWrittenUnderMutex ==
    [][dcreatedtime' # dcreatedtime =>
          /\ mutex # 0
          /\ pc[mutex] \in Holding
          /\ pc'[mutex] # pc[mutex]
      ]_vars

\* C30: the creation mutex is released only by the thread that holds it, in the
\* finally clause of the entry that acquired it; it is taken only when free and
\* once per entry; an entry that acquired nothing (fresh value, or non-blocking
\* acquire failed) never comes to the release
C30_ReleaseMatchesAcquire ==
    [][\A t \in Procs :
          /\ (mutex = t /\ mutex' # t) =>
                /\ pc[t] = "release" /\ pc'[t] \in {"resolve", "raised"}
                /\ acq[t] # "none"
                /\ mutex' = 0
          /\ (pc[t] = "release" /\ pc'[t] # "release") =>
                mutex = t /\ mutex' = 0
          /\ (mutex # t /\ mutex' = t) =>
                /\ mutex = 0
                /\ acq[t] = "none" /\ acq'[t] # "none"
                /\ pc'[t] = "locked"
          /\ (pc[t] # "release" /\ pc'[t] = "release") =>
                mutex = t /\ acq[t] # "none"
          /\ (acq[t] = "none" /\ acq'[t] = "none") =>
                pc'[t] # "release" /\ mutex' # t
          /\ (fresh[t] \/ (pc[t] = "try_acquire" /\ mutex # 0)) =>
                pc'[t] \notin {"locked", "release"}
      ]_vars

\* one thread has acquired and released the mutex; another, whose non-blocking
\* acquire failed meanwhile, is in its scope having acquired nothing; the mutex
\* is free
C30_Witness ==
    \E t, u \in Procs :
        /\ pc[t] \in {"resolve", "body"} /\ acq[t] # "none" /\ invoked[t]
        /\ pc[u] = "body" /\ acq[u] = "none" /\ ~fresh[u] /\ HasValue(createdtime[u])
        /\ mutex = 0

\* C28: the entry of an identifier goes away only when nothing refers to its
\* object any more, and then it can go away; a get that finds the entry gone at
\* the lookup, after the unlocked membership test found it, raises nothing and
\* goes on to the locked path; the locked path tests membership again and,
\* finding no entry, calls the creator, whose object is a new one
C28_EntryGoneCreatesAgain ==
    [][/\ (rvalues # 0 /\ ~Referenced(rvalues)) => ENABLED Collect
       /\ (rvalues # 0 /\ rvalues' = 0) => ~Referenced(rvalues)
       /\ (rvalues' # rvalues /\ rvalues' # 0) => rvalues' = rcreated + 1
       /\ \A t \in Procs :
            /\ (rpc[t] = "get_read" /\ rpc'[t] # "get_read" /\ rvalues = 0) =>
                  /\ rpc'[t] = "sync_acquire"
                  /\ rexc'[t] = "none"
            /\ (rpc[t] = "sync_check" /\ rpc'[t] # "sync_check" /\ rvalues = 0) =>
                  /\ rpc'[t] = "sync_create"
                  /\ rcalls'[t] = rcalls[t] + 1
            /\ rexc[t] = "KeyError" => rfailed[t] = "KeyError"
      ]_vars

\* the entry went away between the membership test and the lookup of a get,
\* which has come back with a newly created object, not the first one
C28_Witness ==
    \E t \in Procs :
        /\ rpc[t] = "holding" /\ rhandler[t] /\ rfailed[t] = "none"
        /\ rcalls[t] = 1 /\ robj[t] > 1 /\ rvalues = robj[t]

\* C27: NameRegistry._mutex is reentrant.  A creator that calls get(other) from
\* inside the locked path is never kept waiting at the inner acquire, which its
\* own thread's hold on the mutex does not bar; the inner call leaves the mutex
\* with the outer holder; and the outer get returns the object made for its own
\* identifier, registered under it, with the mutex released
C27_ReentrantMutex ==
    /\ (rmutex = 0) <=> (rdepth = 0)
    /\ \A t \in Procs :
        /\ rpc[t] = "nested_acquire" => (rmutex = t /\ rdepth = 1 /\ ENABLED NestedAcquire(t))
        /\ rpc[t] \in {"nested_sync_check", "nested_release"} => (rmutex = t /\ rdepth = 2)
        /\ (rpc[t] = "sync_create" /\ rnested[t] # 0) => (rmutex = t /\ rdepth = 1)
        /\ (rpc[t] = "holding" /\ rnested[t] # 0) =>
              /\ robj[t] # 0 /\ robj[t] # rnested[t]
              /\ rvalues = robj[t]
              /\ rmutex # t

\* the creator has made the object of the other identifier through its inner
\* get, under the mutex its thread held already, and the outer get has returned
\* the object of its own identifier
C27_Witness ==
    \E t \in Procs :
        /\ rpc[t] = "holding" /\ rnested[t] # 0 /\ rother = rnested[t]
        /\ rcalls[t] = 1 /\ robj[t] = rnested[t] + 1 /\ rvalues = robj[t]
        /\ rmutex = 0

\* C26 as stated: a creator that re-enters a Lock scope on the creation mutex
\* its outer entry holds deadlocks there, so its inner scope never begins
C26_ReentryDeadlocks ==
    \A t \in Procs : pc[t] # "inner_body"

\* C26, amended: such a creator deadlocks when the inner entry's probe finds no
\* value: the inner entry waits in the blocking acquire for the mutex its own
\* thread holds, which is never released.  When the probe returns a value,
\* present but expired, the inner entry only tries the mutex, fails, and its
\* scope begins with the stale value while the outer entry still holds the mutex
C26_ReentryDeadlocksWithoutValue ==
    [][\A t \in Procs :
          /\ pc[t] = "inner_acquire" =>
                /\ mutex = t
                /\ pc'[t] = "inner_acquire"
                /\ mutex' = t
          /\ (pc[t] = "inner_enter_create" /\ pc'[t] # "inner_enter_create") =>
                /\ mutex = t
                /\ pc'[t] = (IF HasValue(InnerCreatedtime)
                             THEN "inner_try_acquire" ELSE "inner_acquire")
          /\ (pc[t] = "inner_try_acquire" /\ pc'[t] # "inner_try_acquire") =>
                /\ store # <<>> /\ Aged(store[2], now)
                /\ pc'[t] = "inner_body"
                /\ mutex' = t
      ]_vars

\* the re-entering creator waits for the mutex it holds, and so does the other
\* thread
C26_Witness ==
    \E t, u \in Procs :
        /\ pc[t] = "inner_acquire" /\ mutex = t /\ store = <<>>
        /\ pc[u] = "acquire"

\* the inner scope of a re-entering creator has begun
C26_WitnessStale ==
    \E t \in Procs : pc[t] = "inner_body" /\ mutex = t /\ invoked[t]

\* C29: a Lock given a runner as fifth argument and entered over a present but
\* expired value with the creation mutex free goes on to its scope, where it
\* yields the stale value after the runner was called with the mutex: the entry
\* raises nothing
C29_RunnerEntryYieldsStale ==
    [][\A t \in Procs :
          (pc[t] = "with_runner" /\ pc'[t] # "with_runner"
              /\ store # <<>> /\ Aged(store[2], now) /\ mutex = 0) =>
              /\ exc'[t] = "none"
              /\ pc'[t] # "raised"
      ]_vars

\* C35: when __enter__ has returned, its thread does not hold the creation
\* mutex: no thread holds it while in its scope body, the thread that acquired
\* it has given it up before it resolves its value, and leaving the scope
\* changes neither the mutex nor any other lock, store or timestamp
C35_BodyWithoutMutex ==
    [][\A t \in Procs :
          /\ pc[t] \in {"resolve", "body"} => mutex # t
          /\ (pc[t] # "body" /\ pc'[t] = "body") => (mutex # t /\ mutex' # t)
          /\ (pc[t] = "body" /\ pc'[t] # "body") =>
                /\ pc'[t] = "idle"
                /\ mutex' = mutex
                /\ rwlock' = rwlock
                /\ store' = store /\ dcreatedtime' = dcreatedtime
      ]_vars

\* a thread that acquired the mutex and ran the creator is in its scope while
\* another thread holds the mutex
C35_Witness ==
    \E t, u \in Procs :
        /\ pc[t] = "body" /\ acq[t] # "none" /\ invoked[t]
        /\ u # t /\ mutex = u /\ pc[u] \in Holding

\* C32: what a scope is entered with is a value the probe or the creator
\* returned, never the NOT_REGENERATED sentinel
C32_SentinelNeverYielded ==
    \A t \in Procs : pc[t] = "body" => yielded[t] # NOT_REGENERATED

\* C33: an entry whose initial probe raised NeedRegenerationException never
\* tries the mutex without blocking, so _enter_create does not return
\* NOT_REGENERATED to it: it comes to the end of _enter with the pair found
\* under the mutex or made by the creator and yields that, whatever the cache
\* holds by then; the second probe of _enter and its fatal error are not reached
C33_NoReprobeAfterNeedRegeneration ==
    \A t \in Procs :
        /\ pc[t] = "try_acquire" => value[t] # NOT_REGENERATED
        /\ (pc[t] \in {"resolve", "body"} /\ generated[t] = NOT_REGENERATED) =>
              /\ value[t] # NOT_REGENERATED
              /\ acq[t] = "none"
        /\ (pc[t] \in {"resolve", "body"} /\ value[t] = NOT_REGENERATED) =>
              /\ generated[t] # NOT_REGENERATED
              /\ acq[t] = "blocking"
        /\ (pc[t] = "body" /\ value[t] = NOT_REGENERATED) =>
              yielded[t] = generated[t][1]
        /\ exc[t] # "Fatal"
        /\ pc[t] # "raised"

\* the initial probe of a thread raised, the thread created the value under the
\* mutex, and it is in its scope with that value although the cache has dropped
\* it again: a second probe would have raised
C33_Witness ==
    \E t \in Procs :
        /\ pc[t] = "body" /\ value[t] = NOT_REGENERATED /\ acq[t] = "blocking"
        /\ generated[t] # NOT_REGENERATED /\ yielded[t] = generated[t][1]
        /\ store = <<>> /\ ndone >= 1

\* C34: one call of NameRegistry.get calls the creator at most once, whatever
\* the creator raises, and the registry's mutex is not held by the thread when
\* get has returned or raised
C34_CreatorOncePerGet ==
    \A t \in Procs :
        /\ rcalls[t] <= 1
        /\ rpc[t] \in {"holding", "raised", "idle"} => rmutex # t

\* C31: with terminating callbacks and a fairly granted mutex every entry that
\* has probed comes to its scope or raises; in particular no thread stays in
\* the blocking acquire forever
C31_EveryEntryReturns ==
    \A t \in Procs :
        (pc[t] \in {"enter_create", "acquire"}) ~> (pc[t] \in {"body", "raised"})

\* a cold-start caller waits in the blocking acquire while a warm caller, who
\* took the mutex without blocking, holds it
C31_Witness ==
    \E t, u \in Procs :
        /\ pc[t] = "acquire" /\ value[t] = NOT_REGENERATED
        /\ mutex = u /\ acq[u] = "nonblocking" /\ pc[u] \in Holding

=========================================================================
